---- MODULE Spec2Model ----
(***************************************************************************)
(* kenshaw/ffcookies: reading the cookies of a Firefox profile.            *)
(*                                                                         *)
(* Strings are sequences of one-character strings, so that TrimPrefix,     *)
(* HasSuffix, ToLower, url.Parse and SQL LIKE are computed character by    *)
(* character.  A file path is the sequence of its components.              *)
(***************************************************************************)
EXTENDS Integers, Sequences, FiniteSets, TLC

(***************************************************************************)
(* Bounds of the model.                                                    *)
(***************************************************************************)
\* rows of moz_cookies in the store
MaxRows == 2
\* entries of a listing of the firefox directory
MaxEntries == 2
\* calls one caller makes one after the other (SpecConc)
MaxCalls == 2

(***************************************************************************)
(* Strings.                                                                *)
(***************************************************************************)
Uppers == <<"A","B","C","D","E","F","G","H","I","J","K","L","M",
            "N","O","P","Q","R","S","T","U","V","W","X","Y","Z">>
Lowers == <<"a","b","c","d","e","f","g","h","i","j","k","l","m",
            "n","o","p","q","r","s","t","u","v","w","x","y","z">>
Digits == {"0","1","2","3","4","5","6","7","8","9"}

IsUpper(ch) == \E i \in 1..26 : Uppers[i] = ch
IsLower(ch) == \E i \in 1..26 : Lowers[i] = ch
IsLetter(ch) == IsUpper(ch) \/ IsLower(ch)

ToLowerChar(ch) ==
    IF IsUpper(ch) THEN Lowers[CHOOSE i \in 1..26 : Uppers[i] = ch] ELSE ch

\* strings.ToLower
ToLower(s) == [i \in 1..Len(s) |-> ToLowerChar(s[i])]

\* strings.HasPrefix
HasPrefix(s, p) == Len(s) >= Len(p) /\ SubSeq(s, 1, Len(p)) = p

\* strings.HasSuffix
HasSuffix(s, p) ==
    Len(s) >= Len(p) /\ SubSeq(s, Len(s) - Len(p) + 1, Len(s)) = p

\* strings.TrimPrefix: s without the prefix p, once, when s starts with it
TrimPrefix(s, p) ==
    IF HasPrefix(s, p) THEN SubSeq(s, Len(p) + 1, Len(s)) ELSE s

\* strings.Index for a one-character separator: 0 when absent
IndexChar(s, ch) ==
    IF \E i \in 1..Len(s) : s[i] = ch
    THEN CHOOSE i \in 1..Len(s) : s[i] = ch /\ \A j \in 1..(i-1) : s[j] # ch
    ELSE 0

\* the sequences over S of length at most n without a repeated element
DistinctSeqs(S, n) ==
    UNION {{q \in [1..k -> S] : \A i, j \in 1..k : i # j => q[i] # q[j]} :
           k \in 0..n}

(***************************************************************************)
(* Errors: a kind and, for the scheme error, the scheme it quotes.         *)
(***************************************************************************)
Error(kind, detail) == [kind |-> kind, detail |-> detail]
Nil == Error("nil", <<>>)
\* errors.New("code using ffookies must import a sqlite driver!")
ErrNoDriver == Error("no sqlite driver", <<>>)
\* errors.New("cannot determine the firefox profile directory")
ErrNoProfileDir == Error("no profile directory", <<>>)
\* fmt.Errorf("invalid url scheme %q", u.Scheme)
ErrInvalidScheme(scheme) == Error("invalid url scheme", scheme)
\* url.Parse: "missing protocol scheme"
ErrParse == Error("url parse", <<>>)
\* os.ReadDir of a directory that cannot be read
ErrReadDir == Error("readdir", <<>>)
\* ctx.Err() of a cancelled context
ErrCanceled == Error("context canceled", <<>>)
\* what sql.Open or the query may fail with
StoreErrors == {Error("unable to open database file", <<>>),
                Error("no such table: moz_cookies", <<>>)}

(***************************************************************************)
(* net/url: the scheme and the host of a parsed URL.                       *)
(***************************************************************************)
\* url.getScheme: [scheme, rest, err]
RECURSIVE getScheme(_, _)
getScheme(rawURL, i) ==
    IF i > Len(rawURL)
    THEN [scheme |-> <<>>, rest |-> rawURL, err |-> Nil]
    ELSE LET ch == rawURL[i] IN
         IF IsLetter(ch) THEN getScheme(rawURL, i + 1)
         ELSE IF ch \in Digits \cup {"+", "-", "."}
         THEN IF i = 1
              THEN [scheme |-> <<>>, rest |-> rawURL, err |-> Nil]
              ELSE getScheme(rawURL, i + 1)
         ELSE IF ch = ":"
         THEN IF i = 1
              THEN [scheme |-> <<>>, rest |-> <<>>, err |-> ErrParse]
              ELSE [scheme |-> SubSeq(rawURL, 1, i - 1),
                    rest |-> SubSeq(rawURL, i + 1, Len(rawURL)),
                    err |-> Nil]
         ELSE [scheme |-> <<>>, rest |-> rawURL, err |-> Nil]

\* the URL of a string url.Parse rejects
NoURL == [Scheme |-> <<>>, Host |-> <<>>]

\* url.Parse, for URLs without user info, query and fragment:
\* [u, err] with u.Scheme lower-cased and u.Host the authority after "//"
urlParse(urlstr) ==
    LET g == getScheme(urlstr, 1)
        scheme == ToLower(g.scheme)
        rest == g.rest
        authority ==
            IF HasPrefix(rest, <<"/", "/">>)
            THEN LET a == SubSeq(rest, 3, Len(rest))
                     i == IndexChar(a, "/")
                 IN  IF i = 0 THEN a ELSE SubSeq(a, 1, i - 1)
            ELSE <<>>
    IN  IF g.err # Nil THEN [u |-> NoURL, err |-> g.err]
        ELSE IF scheme = <<>> /\ ~HasPrefix(rest, <<"/">>)
                /\ IndexChar(rest, ":") # 0
                /\ (IndexChar(rest, "/") = 0
                    \/ IndexChar(rest, ":") < IndexChar(rest, "/"))
        THEN [u |-> NoURL, err |-> ErrParse]
        ELSE [u |-> [Scheme |-> scheme, Host |-> authority], err |-> Nil]

\* a check that the URL has a scheme at all, whichever it is
SchemeAcceptedAnyScheme(scheme) == ToLower(scheme) # <<>>

\* the switch on strings.ToLower(u.Scheme): case "http", "https", "ws", "wss"
SchemeAccepted(scheme) ==
    ToLower(scheme) \in {<<"h","t","t","p">>, <<"h","t","t","p","s">>,
                         <<"w","s">>, <<"w","s","s">>}

(***************************************************************************)
(* models: the rows of moz_cookies, the two queries and Convert.           *)
(***************************************************************************)
\* SQLite's LIKE: % is any run of characters, _ is any one character,
\* letters compare without case
RECURSIVE Like(_, _)
Like(pattern, s) ==
    IF pattern = <<>> THEN s = <<>>
    ELSE IF Head(pattern) = "%"
    THEN Like(Tail(pattern), s) \/ (s # <<>> /\ Like(pattern, Tail(s)))
    ELSE /\ s # <<>>
         /\ \/ Head(pattern) = "_"
            \/ ToLowerChar(Head(pattern)) = ToLowerChar(Head(s))
         /\ Like(Tail(pattern), Tail(s))

\* models.Cookies: SELECT ... FROM moz_cookies, the rows in the store's
\* order; the host parameter is interpolated into a comment of the query
RECURSIVE Cookies(_, _)
Cookies(db, host) ==
    IF db = <<>> THEN <<>>
    ELSE <<Head(db)>> \o Cookies(Tail(db), host)

\* WHERE host = host in place of LIKE
RECURSIVE CookiesEqualHost(_, _)
CookiesEqualHost(db, host) ==
    IF db = <<>> THEN <<>>
    ELSE IF host = Head(db).Host
    THEN <<Head(db)>> \o CookiesEqualHost(Tail(db), host)
    ELSE CookiesEqualHost(Tail(db), host)

\* models.CookiesLikeHost: SELECT ... FROM moz_cookies WHERE host LIKE host
RECURSIVE CookiesLikeHost(_, _)
CookiesLikeHost(db, host) ==
    IF db = <<>> THEN <<>>
    ELSE IF Like(host, Head(db).Host)
    THEN <<Head(db)>> \o CookiesLikeHost(Tail(db), host)
    ELSE CookiesLikeHost(Tail(db), host)

\* time.Unix(sec, nsec) for 0 <= nsec < 1e9
timeUnix(sec, nsec) == [unix |-> sec, nsec |-> nsec]

\* Secure and HttpOnly taken from each other's column
ConvertRowFlagsSwapped(c) ==
    [Name |-> c.Name, Value |-> c.Value, Path |-> c.Path, Domain |-> c.Host,
     Expires |-> [unix |-> c.Expiry, nsec |-> 0],
     Secure |-> c.IsHTTPOnly, HttpOnly |-> c.IsSecure]

\* the http.Cookie Convert builds from one row
ConvertRow(c) ==
    [Name |-> c.Name, Value |-> c.Value, Path |-> c.Path, Domain |-> c.Host,
     Expires |-> timeUnix(c.Expiry, 0),
     Secure |-> c.IsSecure, HttpOnly |-> c.IsHTTPOnly]

\* the loop of Convert from row i on, cookies being what it has appended
RECURSIVE ConvertFrom(_, _, _)
ConvertFrom(res, i, cookies) ==
    IF i > Len(res) THEN cookies
    ELSE ConvertFrom(res, i + 1, Append(cookies, ConvertRow(res[i])))

\* models.Convert
Convert(res) == ConvertFrom(res, 1, <<>>)

(***************************************************************************)
(* ffcookies: the helpers of the retrieval.                                *)
(***************************************************************************)
\* "%"+strings.TrimPrefix(host, "%")
HostPattern(host) == <<"%">> \o TrimPrefix(host, <<"%">>)

\* the query function ReadFileContext picks and the host it passes
QueryFor(host) ==
    IF host # <<>>
    THEN [f |-> "CookiesLikeHost", host |-> HostPattern(host)]
    ELSE [f |-> "Cookies", host |-> host]

\* f(ctx, db, host) on a store that answers
RunQuery(f, db, host) ==
    IF f = "CookiesLikeHost" THEN CookiesLikeHost(db, host)
    ELSE Cookies(db, host)

\* driverName: the first of sql.Drivers() that is "sqlite3" or "sqlite"
RECURSIVE driverNameFrom(_, _)
driverNameFrom(names, i) ==
    IF i > Len(names) THEN ""
    ELSE IF names[i] \in {"sqlite3", "sqlite"} THEN names[i]
    ELSE driverNameFrom(names, i + 1)

driverName(names) == driverNameFrom(names, 1)

DotMozilla == <<".","m","o","z","i","l","l","a">>
Firefox == <<"f","i","r","e","f","o","x">>
CookiesSqlite == <<"c","o","o","k","i","e","s",".","s","q","l","i","t","e">>
DefaultRelease ==
    <<".","d","e","f","a","u","l","t","-","r","e","l","e","a","s","e">>

\* filepath.Join of a directory and names that hold no separator and are
\* neither "." nor "..": the empty names are dropped
RECURSIVE filepathJoin(_, _)
filepathJoin(dir, names) ==
    IF names = <<>> THEN dir
    ELSE IF Head(names) = <<>> THEN filepathJoin(dir, Tail(names))
    ELSE filepathJoin(Append(dir, Head(names)), Tail(names))

\* profileDir: home is what os.UserHomeDir gives; "" when it fails
profileDir(home) ==
    IF home.err = Nil THEN filepathJoin(home.dir, <<DotMozilla, Firefox>>)
    ELSE <<>>

\* the loop without the entry.IsDir() test
RECURSIVE ProfileFromAnyEntry(_, _, _)
ProfileFromAnyEntry(dir, entries, i) ==
    IF i > Len(entries) THEN dir
    ELSE IF HasSuffix(entries[i].Name, DefaultRelease)
    THEN Append(dir, entries[i].Name)
    ELSE ProfileFromAnyEntry(dir, entries, i + 1)

\* the loop of cookiePath over the entries from entry i on
RECURSIVE ProfileFrom(_, _, _)
ProfileFrom(dir, entries, i) ==
    IF i > Len(entries) THEN dir
    ELSE IF entries[i].IsDir /\ HasSuffix(entries[i].Name, DefaultRelease)
    THEN filepathJoin(dir, <<entries[i].Name>>)
    ELSE ProfileFrom(dir, entries, i + 1)

\* cookiePath: readDir is what os.ReadDir(dir) gives when it is called;
\* read tells whether it was called
cookiePath(dir, profile, readDir) ==
    IF profile = <<>> /\ readDir.err # Nil
    THEN [path |-> <<>>, err |-> readDir.err, read |-> TRUE]
    ELSE LET d == IF profile = <<>>
                  THEN ProfileFrom(dir, readDir.entries, 1)
                  ELSE dir
         IN  [path |-> filepathJoin(d, <<profile, CookiesSqlite>>),
              err |-> Nil, read |-> profile = <<>>]

\* DefaultOpenParams
DefaultOpenParams == "?nolock=1&immutable=1&mode=ro"

\* "file:"+cookiePath+DefaultOpenParams
Locator(path) ==
    [prefix |-> "file:", path |-> path, params |-> DefaultOpenParams]
NoFile == [prefix |-> "", path |-> <<>>, params |-> ""]

\* the filter predicates f the callers pass
Predicates == {"NameNotB", "IsSecure", "Nothing"}
Holds(f, cookie) ==
    CASE f = "NameNotB" -> cookie.Name # "b"
      [] f = "IsSecure" -> cookie.Secure
      [] OTHER -> FALSE

\* the filter loop of ReadJarFilteredContext from cookie i on: c is what it
\* has kept, calls the cookies f has been called with
RECURSIVE FilterFrom(_, _, _, _, _)
FilterFrom(cookies, f, i, c, calls) ==
    IF i > Len(cookies) THEN [c |-> c, calls |-> calls]
    ELSE FilterFrom(cookies, f, i + 1,
                    IF Holds(f, cookies[i]) THEN Append(c, cookies[i]) ELSE c,
                    Append(calls, cookies[i]))

\* a loop that appends every cookie
FilterCookiesKeepAll(cookies, f) == [c |-> cookies, calls |-> cookies]

FilterCookies(cookies, f) == FilterFrom(cookies, f, 1, <<>>, <<>>)

\* Jar: a new jar and the cookies set in it for u
Jar(u, cookies) == [built |-> TRUE, u |-> u, cookies |-> cookies]
NoJar == [built |-> FALSE, u |-> NoURL, cookies |-> <<>>]

(***************************************************************************)
(* The inputs the callers and the environment are drawn from.              *)
(***************************************************************************)
ExampleCom == <<"e","x","a","m","p","l","e",".","c","o","m">>
OtherOrg == <<"o","t","h","e","r",".","o","r","g">>

\* the rows moz_cookies may hold: (name, host, path) is unique
RowPool ==
    {[Expiry |-> 1700000000, Host |-> ExampleCom, Name |-> "sid",
      Value |-> "xyz", Path |-> "/", IsSecure |-> TRUE, IsHTTPOnly |-> TRUE],
     [Expiry |-> 0, Host |-> <<".">> \o ExampleCom, Name |-> "b",
      Value |-> "", Path |-> "/x", IsSecure |-> FALSE, IsHTTPOnly |-> FALSE],
     [Expiry |-> 1, Host |-> OtherOrg, Name |-> "a",
      Value |-> "v", Path |-> "/", IsSecure |-> FALSE, IsHTTPOnly |-> TRUE]}

\* the stores: the rows in the store's own order
Stores == DistinctSeqs(RowPool, MaxRows)

\* the host filters of ReadFile and Read:
\* "", "example.com", "%example.com", "%%example.com", "_ther.ORG"
HostFilters ==
    {<<>>, ExampleCom, <<"%">> \o ExampleCom, <<"%","%">> \o ExampleCom,
     <<"_","t","h","e","r",".","O","R","G">>}

Https == <<"h","t","t","p","s",":","/","/">>
\* "https://example.com/", "HTTP://example.com", "wss://other.org/x",
\* "ws://example.com", "ftp://example.com/", "http:///x", "example.com",
\* "://example.com"
URLStrings ==
    {Https \o ExampleCom \o <<"/">>,
     <<"H","T","T","P",":","/","/">> \o ExampleCom,
     <<"w","s","s",":","/","/">> \o OtherOrg \o <<"/","x">>,
     <<"w","s",":","/","/">> \o ExampleCom,
     <<"f","t","p",":","/","/">> \o ExampleCom \o <<"/">>,
     <<"h","t","t","p",":","/","/","/","x">>,
     ExampleCom,
     <<":","/","/">> \o ExampleCom}

\* the profile names: "" and "work"
Work == <<"w","o","r","k">>
Profiles == {<<>>, Work}

\* what os.UserHomeDir gives: "/home/ken", or an error
Homes ==
    {[dir |-> << <<"h","o","m","e">>, <<"k","e","n">> >>, err |-> Nil],
     [dir |-> <<>>, err |-> Error("$HOME is not defined", <<>>)]}

\* the entries the firefox directory may hold, sorted by name as os.ReadDir
\* lists them: a file "a.default-release", directories "b.default-release",
\* "c.default-release", "default-release" and "work"
EntryPool ==
    <<[Name |-> <<"a">> \o DefaultRelease, IsDir |-> FALSE],
      [Name |-> <<"b">> \o DefaultRelease, IsDir |-> TRUE],
      [Name |-> <<"c">> \o DefaultRelease, IsDir |-> TRUE],
      [Name |-> Tail(DefaultRelease), IsDir |-> TRUE],
      [Name |-> Work, IsDir |-> TRUE]>>

\* the entries of pool whose index is in S, in pool's order
RECURSIVE Pick(_, _, _)
Pick(pool, S, i) ==
    IF i > Len(pool) THEN <<>>
    ELSE IF i \in S THEN <<pool[i]>> \o Pick(pool, S, i + 1)
    ELSE Pick(pool, S, i + 1)

\* what os.ReadDir gives: a sorted listing, or an error
Listings ==
    {Pick(EntryPool, S, 1) :
        S \in {T \in SUBSET (1..Len(EntryPool)) : Cardinality(T) <= MaxEntries}}
NoReadDir == [entries |-> <<>>, err |-> Nil]
ReadDirs ==
    {[entries |-> l, err |-> Nil] : l \in Listings} \cup
    {[entries |-> <<>>, err |-> ErrReadDir]}

\* what sql.Drivers() gives: the registered names, sorted
DriverLists ==
    {<<"postgres">>, <<"postgres", "sqlite3">>, <<"sqlite", "sqlite3">>}

\* the store locators ReadFile is called with
Files == {[prefix |-> "file:", path |-> << <<"t","m","p">>, CookiesSqlite >>,
           params |-> "?mode=ro"]}

Callers == {"c1", "c2"}

(***************************************************************************)
(* The operations.                                                         *)
(***************************************************************************)
FileOps == {"ReadFile", "ReadFileContext"}
ProfileOps == {"Read", "ReadContext"}
JarOps == {"ReadJar", "ReadJarContext"}
FilteredOps == {"ReadJarFiltered", "ReadJarFilteredContext"}

\* the operations with a ctx parameter
TakesContext(op) ==
    op \in {"ReadFileContext", "ReadContext", "ReadJarContext",
            "ReadJarFilteredContext", "ReadJarFiltered"}

\* the context an operation hands down: its ctx parameter, or
\* context.Background()
ContextPassed(op) ==
    IF op \in {"ReadFileContext", "ReadContext", "ReadJarContext",
               "ReadJarFilteredContext"}
    THEN "ctx" ELSE "background"

VARIABLES
    store,      \* the rows of moz_cookies
    drivers,    \* sql.Drivers()
    handles,    \* the *sql.DB handles opened so far
    call        \* per caller: the call it is in

vars == <<store, drivers, handles, call>>

\* a caller between calls, having made n calls
Idle(n) ==
    [pc |-> "idle", n |-> n, op |-> "", cancelled |-> FALSE,
     profile |-> <<>>, urlstr |-> <<>>, pred |-> "", host |-> <<>>,
     u |-> NoURL, readDir |-> NoReadDir, dirRead |-> FALSE,
     file |-> NoFile,
     driver |-> "", db |-> 0, f |-> "", pattern |-> <<>>, qctx |-> "",
     opens |-> 0, queries |-> 0, aborted |-> FALSE,
     res |-> <<>>, cookies |-> <<>>, c |-> <<>>, calls |-> <<>>,
     jar |-> NoJar, raised |-> Nil, err |-> Nil]

Init ==
    /\ store \in Stores
    /\ drivers \in DriverLists
    /\ handles = <<>>
    /\ call = [c \in Callers |-> Idle(0)]

\* the error wrapped on its way out
FailWrapped(r, e) ==
    [r EXCEPT !.pc = "done", !.raised = e,
              !.err = Error("ffcookies: read failed", e.detail)]

\* return nil, err: the call in state r ends with the error e it got
Fail(r, e) == [r EXCEPT !.pc = "done", !.raised = e, !.err = e]

\* ReadFile, ReadFileContext: called with a locator and a host filter
CallReadFile(c, op, file, host) ==
    /\ call[c].pc = "idle"
    /\ call[c].n < MaxCalls
    /\ call' = [call EXCEPT ![c] =
                   [@ EXCEPT !.pc = "open", !.n = @ + 1, !.op = op,
                             !.file = file, !.host = host]]
    /\ UNCHANGED <<store, drivers, handles>>

\* Read, ReadContext: called with a profile name and a host filter
CallRead(c, op, profile, host) ==
    /\ call[c].pc = "idle"
    /\ call[c].n < MaxCalls
    /\ call' = [call EXCEPT ![c] =
                   [@ EXCEPT !.pc = "profile", !.n = @ + 1, !.op = op,
                             !.profile = profile, !.host = host]]
    /\ UNCHANGED <<store, drivers, handles>>

\* ReadJar, ReadJarContext, ReadJarFiltered, ReadJarFilteredContext: the URL
\* is parsed and its scheme checked before anything is read
CallReadJar(c, op, profile, urlstr, f) ==
    /\ call[c].pc = "idle"
    /\ call[c].n < MaxCalls
    /\ LET p == urlParse(urlstr)
           begun == [call[c] EXCEPT !.n = @ + 1, !.op = op,
                                    !.profile = profile, !.urlstr = urlstr,
                                    !.pred = f, !.u = p.u]
       IN  call' = [call EXCEPT ![c] =
              IF p.err # Nil
              THEN Fail(begun, p.err)
              ELSE IF ~SchemeAccepted(p.u.Scheme)
              THEN Fail(begun, ErrInvalidScheme(p.u.Scheme))
              ELSE [begun EXCEPT !.pc = "profile", !.host = p.u.Host]]
    /\ UNCHANGED <<store, drivers, handles>>

\* the caller cancels the context it passed
Cancel(c) ==
    /\ call[c].pc \in {"profile", "open", "query"}
    /\ TakesContext(call[c].op)
    /\ ~call[c].cancelled
    /\ call' = [call EXCEPT ![c].cancelled = TRUE]
    /\ UNCHANGED <<store, drivers, handles>>

\* ReadContext: profileDir, cookiePath and the locator of the store; home
\* and readDir are what the file system answers
ResolveProfile(c, home, readDir) ==
    /\ call[c].pc = "profile"
    /\ LET dir == profileDir(home)
           p == cookiePath(dir, call[c].profile, readDir)
       IN  call' = [call EXCEPT ![c] =
              IF dir = <<>> THEN Fail(call[c], ErrNoProfileDir)
              ELSE IF p.err # Nil
              THEN [Fail(call[c], p.err) EXCEPT !.readDir = readDir,
                                          !.dirRead = p.read]
              ELSE [@ EXCEPT !.pc = "open", !.file = Locator(p.path),
                             !.readDir = readDir, !.dirRead = p.read]]
    /\ UNCHANGED <<store, drivers, handles>>

\* a handle just opened by call n of caller c
NewDB(c, n) == [caller |-> c, n |-> n, open |-> TRUE, closedBy |-> <<>>]

\* one handle shared by the callers: the oldest open one is closed
dbCloseOldest(dbs, db, c, n) ==
    LET first == CHOOSE h \in 1..Len(dbs) :
                    dbs[h].open /\ \A g \in 1..(h - 1) : ~dbs[g].open
    IN  [dbs EXCEPT ![first] = [@ EXCEPT !.open = FALSE, !.closedBy = <<c, n>>]]

\* db.Close() by call n of caller c
dbClose(dbs, db, c, n) ==
    [dbs EXCEPT ![db] = [@ EXCEPT !.open = FALSE, !.closedBy = <<c, n>>]]

\* ReadFileContext up to the query: the driver check, sql.Open, the choice
\* of the query; openErr is what sql.Open answers.  The entries cookiePath
\* listed are out of scope by now.
OpenStore(c, openErr) ==
    /\ call[c].pc = "open"
    /\ LET driver == driverName(drivers)
           q == QueryFor(call[c].host)
       IN  IF driver = ""
           THEN /\ openErr = Nil
                /\ call' = [call EXCEPT ![c] =
                              [Fail(call[c], ErrNoDriver) EXCEPT
                                  !.readDir = NoReadDir]]
                /\ UNCHANGED handles
           ELSE IF openErr # Nil
           THEN /\ call' = [call EXCEPT ![c] =
                              [Fail(call[c], openErr) EXCEPT !.driver = driver,
                                                       !.opens = @ + 1,
                                                       !.readDir = NoReadDir]]
                /\ UNCHANGED handles
           ELSE /\ handles' = Append(handles, NewDB(c, call[c].n))
                /\ call' = [call EXCEPT ![c] =
                              [@ EXCEPT !.pc = "query", !.driver = driver,
                                        !.readDir = NoReadDir,
                                        !.opens = @ + 1,
                                        !.db = Len(handles) + 1,
                                        !.f = q.f, !.pattern = q.host,
                                        !.qctx = ContextPassed(call[c].op),
                                        !.queries = @ + 1]]
    /\ UNCHANGED <<store, drivers>>

\* whether the context handed to the query of caller c is cancelled
QueryCancelled(c) == call[c].qctx = "ctx" /\ call[c].cancelled

\* ReadFileContext from the answer of the query: queryErr is what the store
\* answers when the query is not cancelled; the deferred db.Close() runs on
\* every return
FinishQuery(c, queryErr) ==
    /\ call[c].pc = "query"
    /\ handles' = dbClose(handles, call[c].db, c, call[c].n)
    /\ LET seen == [call[c] EXCEPT !.aborted =
                       TakesContext(call[c].op) /\ call[c].cancelled]
       IN  IF QueryCancelled(c)
           THEN /\ queryErr = Nil
                /\ call' = [call EXCEPT ![c] = Fail(seen, ErrCanceled)]
           ELSE IF queryErr # Nil
           THEN call' = [call EXCEPT ![c] = Fail(seen, queryErr)]
           ELSE LET res == RunQuery(call[c].f, store, call[c].pattern)
                IN  call' = [call EXCEPT ![c] =
                       [seen EXCEPT !.pc = IF call[c].op \in JarOps \cup FilteredOps
                                           THEN "jar" ELSE "done",
                                    !.res = res, !.cookies = Convert(res)]]
    /\ UNCHANGED <<store, drivers>>

\* ReadJarContext, ReadJarFilteredContext after the cookies are read: the
\* filter, then Jar
BuildJar(c) ==
    /\ call[c].pc = "jar"
    /\ LET r == IF call[c].op \in FilteredOps
                THEN FilterCookies(call[c].cookies, call[c].pred)
                ELSE [c |-> call[c].cookies, calls |-> <<>>]
       IN  call' = [call EXCEPT ![c] =
                      [@ EXCEPT !.pc = "done", !.c = r.c, !.calls = r.calls,
                                !.jar = Jar(call[c].u, r.c)]]
    /\ UNCHANGED <<store, drivers, handles>>

\* the call has returned; the caller may call again
Return(c) ==
    /\ call[c].pc = "done"
    /\ call' = [call EXCEPT ![c] = Idle(call[c].n)]
    /\ UNCHANGED <<store, drivers, handles>>

\* one caller, one call of any operation
Next ==
    \E c \in {"c1"} :
        \/ /\ call[c].n = 0
           /\ \E op \in FileOps, file \in Files, host \in HostFilters :
                 CallReadFile(c, op, file, host)
        \/ /\ call[c].n = 0
           /\ \E op \in ProfileOps, profile \in Profiles, host \in HostFilters :
                 CallRead(c, op, profile, host)
        \/ /\ call[c].n = 0
           /\ \E op \in JarOps, profile \in Profiles, urlstr \in URLStrings :
                 CallReadJar(c, op, profile, urlstr, "")
        \/ /\ call[c].n = 0
           /\ \E op \in FilteredOps, profile \in Profiles,
                 urlstr \in URLStrings, f \in Predicates :
                 CallReadJar(c, op, profile, urlstr, f)
        \/ Cancel(c)
        \/ \E home \in Homes, readDir \in ReadDirs :
              ResolveProfile(c, home, readDir)
        \/ \E openErr \in StoreErrors \cup {Nil} : OpenStore(c, openErr)
        \/ \E queryErr \in StoreErrors \cup {Nil} : FinishQuery(c, queryErr)
        \/ BuildJar(c)

Spec == Init /\ [][Next]_vars

\* the store of the concurrent callers: one row of each host
ConcStore == CHOOSE q \in Stores : Len(q) = MaxRows

InitConc ==
    /\ store = ConcStore
    /\ drivers \in DriverLists
    /\ handles = <<>>
    /\ call = [c \in Callers |-> Idle(0)]

\* the callers call ReadFileContext concurrently, each up to MaxCalls times
NextConc ==
    \E c \in Callers :
        \/ \E file \in Files, host \in {<<>>, ExampleCom} :
              CallReadFile(c, "ReadFileContext", file, host)
        \/ Cancel(c)
        \/ \E openErr \in StoreErrors \cup {Nil} : OpenStore(c, openErr)
        \/ \E queryErr \in StoreErrors \cup {Nil} : FinishQuery(c, queryErr)
        \/ Return(c)

SpecConc == InitConc /\ [][NextConc]_vars

(***************************************************************************)
(* The properties.                                                         *)
(***************************************************************************)
Returned(c) == call[c].pc = "done"
\* the call of c has got cookies from ReadFileContext
Retrieved(c) ==
    call[c].pc \in {"jar", "done"} /\ call[c].queries > 0 /\ call[c].err = Nil
\* the call of c has issued its query
Queried(c) == call[c].queries > 0
IsJarCall(c) == call[c].op \in JarOps \cup FilteredOps
HttpSchemes == {<<"h","t","t","p">>, <<"h","t","t","p","s">>,
                <<"w","s">>, <<"w","s","s">>}
FtpScheme == <<"f","t","p">>
Epoch == [unix |-> 0, nsec |-> 0]
AddSeconds(t, d) == [unix |-> t.unix + d, nsec |-> t.nsec]
\* the firefox directory under the home directory /home/ken
BaseDir == << <<"h","o","m","e">>, <<"k","e","n">>, DotMozilla, Firefox >>
\* the entries of a listing that are default-release profile directories
ProfileEntries(entries) ==
    {i \in 1..Len(entries) :
        entries[i].IsDir /\ HasSuffix(entries[i].Name, DefaultRelease)}
LeadingWildcards(pattern) ==
    IF \A i \in 1..Len(pattern) : pattern[i] = "%" THEN Len(pattern)
    ELSE (CHOOSE i \in 1..Len(pattern) :
             pattern[i] # "%" /\ \A j \in 1..(i - 1) : pattern[j] = "%") - 1

\* C1: for every non-empty host filter the pattern handed to the
\* host-pattern query starts with exactly one '%': "example.com" and
\* "%example.com" both give "%example.com", and no filter gives a pattern
\* that starts with two or more '%'.
C1_ExactlyOneLeadingWildcard ==
    \A c \in Callers :
        (Queried(c) /\ call[c].host # <<>>) =>
            /\ call[c].f = "CookiesLikeHost"
            /\ LeadingWildcards(call[c].pattern) = 1
            /\ call[c].host \in {ExampleCom, <<"%">> \o ExampleCom}
                  => call[c].pattern = <<"%">> \o ExampleCom

\* C2: every operation with a ctx parameter hands the caller's own context to
\* the query, so a call whose context is cancelled while the query is in
\* flight returns an error and neither cookies nor a jar.
C2_CallerContextReachesQuery ==
    \A c \in Callers :
        TakesContext(call[c].op) =>
            /\ Queried(c) => call[c].qctx = "ctx"
            /\ (Returned(c) /\ call[c].aborted) =>
                  /\ call[c].err # Nil
                  /\ call[c].cookies = <<>>
                  /\ call[c].jar = NoJar

\* C3: a handle is open only while the call that opened it is in its query,
\* so no handle of a finished call is open, on success, error and
\* cancellation alike; and a closed handle was closed by the call that opened
\* it.
C3_HandleClosedByItsCall ==
    /\ \A h \in 1..Len(handles) :
          LET d == handles[h] IN
          /\ d.open => /\ call[d.caller].pc = "query"
                       /\ call[d.caller].n = d.n
                       /\ call[d.caller].db = h
          /\ ~d.open => d.closedBy = <<d.caller, d.n>>
    /\ \A c \in Callers :
          /\ call[c].pc = "query" => /\ call[c].db \in 1..Len(handles)
                                     /\ handles[call[c].db].open
          /\ call[c].pc \in {"idle", "open"} => call[c].db = 0

\* C3 witness: a call that opened later has ended cancelled with its handle
\* closed, while the other caller's older handle is still open in its query.
C3_Witness ==
    \E c1, c2 \in Callers :
        /\ c1 # c2
        /\ Returned(c1) /\ call[c1].err = ErrCanceled /\ call[c1].n = 2
        /\ ~handles[call[c1].db].open
        /\ call[c2].pc = "query" /\ handles[call[c2].db].open
        /\ call[c2].db < call[c1].db

\* C4: a jar operation whose URL parses with a scheme other than http,
\* https, ws, wss fails with the invalid-scheme error, returns no jar and
\* resolves no profile, opens no store and runs no query; with one of the
\* four schemes it goes on to the retrieval.
C4_SchemeValidation ==
    \A c \in Callers :
        (IsJarCall(c) /\ call[c].pc # "idle" /\ call[c].err # ErrParse) =>
            IF ToLower(call[c].u.Scheme) \in HttpSchemes
            THEN /\ call[c].err.kind # "invalid url scheme"
                 /\ call[c].pc = "profile" \/ call[c].file # NoFile
                       \/ (Returned(c) /\ call[c].err # Nil)
            ELSE /\ Returned(c)
                 /\ call[c].err = ErrInvalidScheme(call[c].u.Scheme)
                 /\ call[c].jar = NoJar /\ call[c].cookies = <<>>
                 /\ call[c].file = NoFile /\ ~call[c].dirRead
                 /\ call[c].opens = 0 /\ call[c].queries = 0
                 /\ call[c].db = 0

\* C4 witness: ReadJarFilteredContext with "ftp://example.com/" has failed.
C4_Witness ==
    \E c \in Callers :
        /\ call[c].op = "ReadJarFilteredContext" /\ Returned(c)
        /\ call[c].u.Scheme = FtpScheme
        /\ call[c].err = ErrInvalidScheme(FtpScheme)

\* C5: the filter is called once with each retrieved cookie, in order, and
\* the jar is built from exactly the cookies it holds for, in their order.
C5_FilterKeepsOrder ==
    \A c \in Callers :
        (call[c].op \in FilteredOps /\ Returned(c) /\ call[c].err = Nil) =>
            LET Kept(x) == Holds(call[c].pred, x) IN
            /\ call[c].calls = call[c].cookies
            /\ call[c].c = SelectSeq(call[c].cookies, Kept)
            /\ call[c].jar = [built |-> TRUE, u |-> call[c].u,
                              cookies |-> call[c].c]

\* C5 witness: of the cookies "b", "sid" the filter Name != "b" has kept "sid".
C5_Witness ==
    \E c \in Callers :
        /\ call[c].op = "ReadJarFilteredContext" /\ Returned(c)
        /\ call[c].pred = "NameNotB"
        /\ Len(call[c].cookies) = 2 /\ call[c].cookies[1].Name = "b"
        /\ Len(call[c].jar.cookies) = 1
        /\ call[c].jar.cookies[1].Name = "sid"

\* C6: Convert gives one cookie per row, in the rows' order: Name, Value,
\* Path, Secure, HttpOnly copied, Domain the host, Expires the epoch plus
\* expiry seconds; no rows give no cookies and no error.
C6_ConvertOneToOne ==
    \A c \in Callers :
        Retrieved(c) =>
            /\ Len(call[c].cookies) = Len(call[c].res)
            /\ \A i \in 1..Len(call[c].res) :
                  LET row == call[c].res[i]
                      k == call[c].cookies[i]
                  IN  /\ k.Name = row.Name /\ k.Value = row.Value
                      /\ k.Path = row.Path /\ k.Domain = row.Host
                      /\ k.Secure = row.IsSecure
                      /\ k.HttpOnly = row.IsHTTPOnly
                      /\ k.Expires = AddSeconds(Epoch, row.Expiry)
                      /\ DOMAIN k = {"Name", "Value", "Path", "Domain",
                                     "Expires", "Secure", "HttpOnly"}

\* C6 witness: two rows converted, the second with expiry 0 and so expiring
\* at the epoch, the first secure and not the second.
C6_Witness ==
    \E c \in Callers :
        /\ Retrieved(c) /\ Len(call[c].res) = 2
        /\ call[c].res[2].Expiry = 0 /\ call[c].cookies[2].Expires = Epoch
        /\ call[c].cookies[1].Secure /\ ~call[c].cookies[2].Secure
        /\ call[c].cookies[1].Name = "sid" /\ call[c].cookies[2].Name = "b"

\* C7: with no profile name cookiePath takes the first listed entry that is
\* a directory named *.default-release, and the base directory itself when
\* there is none; with a profile name it takes that subdirectory and does
\* not read the base directory; it fails only when the name is empty and
\* the base directory cannot be read.
C7_CookiePath ==
    \A c \in Callers :
        /\ (call[c].pc = "open" /\ call[c].op \notin FileOps) =>
              LET entries == call[c].readDir.entries
                  found == ProfileEntries(entries)
                  first == CHOOSE i \in found : \A j \in found : i <= j
              IN  /\ call[c].file.prefix = "file:"
                  /\ call[c].file.params = DefaultOpenParams
                  /\ call[c].profile # <<>> =>
                        /\ ~call[c].dirRead
                        /\ call[c].file.path =
                              BaseDir \o <<call[c].profile, CookiesSqlite>>
                  /\ (call[c].profile = <<>> /\ found # {}) =>
                        call[c].file.path =
                           BaseDir \o <<entries[first].Name, CookiesSqlite>>
                  /\ (call[c].profile = <<>> /\ found = {}) =>
                        call[c].file.path = BaseDir \o <<CookiesSqlite>>
                  /\ call[c].profile = <<>> =>
                        call[c].dirRead /\ call[c].readDir.err = Nil
        /\ (Returned(c) /\ call[c].err = ErrReadDir) =>
              /\ call[c].profile = <<>>
              /\ call[c].readDir.err = ErrReadDir
              /\ call[c].file = NoFile

\* C7 witness: the listing holds the file "a.default-release" before the
\* directory "b.default-release", and the store is under the directory.
C7_Witness ==
    \E c \in Callers :
        /\ call[c].pc = "open" /\ call[c].profile = <<>>
        /\ Len(call[c].readDir.entries) = 2
        /\ ~call[c].readDir.entries[1].IsDir
        /\ HasSuffix(call[c].readDir.entries[1].Name, DefaultRelease)
        /\ call[c].file.path =
              BaseDir \o <<call[c].readDir.entries[2].Name, CookiesSqlite>>

\* C8: ReadJarContext and ReadJarFilteredContext with an accepted scheme always use the host-pattern
\* query with the URL's host, never the query for all rows, so every cookie
\* handed to the jar has a stored host that matches the URL's host.
C8_JarReadsOnlyHostCookies ==
    \A c \in Callers :
        (call[c].op \in {"ReadJarContext", "ReadJarFilteredContext"}
            /\ Queried(c)) =>
            /\ call[c].f = "CookiesLikeHost"
            /\ \A i \in 1..Len(call[c].jar.cookies) :
                  Like(<<"%">> \o call[c].u.Host, call[c].jar.cookies[i].Domain)

\* C9: with an empty host filter ReadFileContext runs the query for all rows
\* and returns the conversion of every stored row; with a host filter it
\* runs the host-pattern query and returns the conversion of exactly the
\* rows whose host is LIKE the pattern.
C9_QueryByHostFilter ==
    \A c \in Callers :
        /\ Queried(c) =>
              call[c].f = IF call[c].host = <<>> THEN "Cookies"
                          ELSE "CookiesLikeHost"
        /\ Retrieved(c) =>
              LET Matches(row) ==
                      call[c].host = <<>> \/ Like(call[c].pattern, row.Host)
                  rows == SelectSeq(store, Matches)
              IN  /\ call[c].res = rows
                  /\ Len(call[c].cookies) = Len(rows)
                  /\ \A i \in 1..Len(rows) :
                        /\ call[c].cookies[i].Name = rows[i].Name
                        /\ call[c].cookies[i].Domain = rows[i].Host
                        /\ call[c].cookies[i].Path = rows[i].Path

\* C9 witness: the store holds the one row of example.com, the filter is
\* "example.com", and exactly that cookie is returned.
C9_Witness ==
    \E c \in Callers :
        /\ call[c].op = "ReadFileContext" /\ Returned(c) /\ Retrieved(c)
        /\ Len(store) = 1 /\ store[1].Host = ExampleCom
        /\ call[c].host = ExampleCom
        /\ Len(call[c].cookies) = 1
        /\ call[c].cookies[1].Domain = ExampleCom
        /\ call[c].cookies[1].Name = "sid"
        /\ call[c].cookies[1].Secure /\ call[c].cookies[1].HttpOnly

\* C10: a call opens the store at most once and queries at most once; with
\* no sqlite driver registered it fails before any open; the error of a
\* failed open or query is returned as it is; a failed call returns neither
\* cookies nor a jar.
C10_NoRetryErrorsUnmodified ==
    \A c \in Callers :
        /\ call[c].opens <= 1 /\ call[c].queries <= 1
        /\ call[c].queries <= call[c].opens
        /\ (\A i \in 1..Len(drivers) : drivers[i] \notin {"sqlite", "sqlite3"})
              => /\ call[c].opens = 0 /\ call[c].db = 0
                 /\ (Returned(c) /\ call[c].file # NoFile)
                       => call[c].err = ErrNoDriver
        /\ call[c].err = ErrNoDriver => call[c].opens = 0
        /\ call[c].raised # Nil =>
              /\ Returned(c)
              /\ call[c].err = call[c].raised
              /\ call[c].cookies = <<>> /\ call[c].jar = NoJar
        /\ (Returned(c) /\ call[c].err = Nil) => call[c].raised = Nil

\* C10 witness: the query of ReadJarContext has failed after one open and one
\* query, and its error is what the call returns.
C10_Witness ==
    \E c \in Callers :
        /\ call[c].op = "ReadJarContext" /\ Returned(c)
        /\ call[c].opens = 1 /\ call[c].queries = 1
        /\ call[c].raised \in StoreErrors /\ call[c].err = call[c].raised

====
